---- MODULE Spec2Model ----
\* Verification model of the parametric payout engine (src/src/payout_engine.py):
\* the category classifier, the segment projection, the single-location
\* evaluator and the portfolio evaluator.
\*
\* Floating point values are kept exact as rationals n/d (d > 0) with a NaN
\* flag; distances are kept as squared miles, so that no square root is needed.
\* Payout fractions are integer percents, money is in thousands.
EXTENDS Integers, Sequences, FiniteSets, TLC

VARIABLES
    pc,                 \* "call" before the call, then the name of the function that ran
    storm_track_df,     \* the track: a sequence of records LAT, LON, USA_WIND, USA_PRES
    policy_params,      \* the policy of a single-location evaluation
    trigger_method,     \* the method string
    wind,               \* determine_category: the wind reading
    pressure,           \* determine_category: the pressure reading
    payout_table,       \* determine_category / payout resolution: the table
    max_cat_achieved,   \* payout resolution: the achieved category
    locations,          \* evaluate_portfolio_complex: the location list
    aggregate_limit,    \* evaluate_portfolio_complex: the limit
    payout_profiles,    \* evaluate_portfolio_complex: the ordered name -> table map
    ret                 \* what the call returned, or the exception it raised

vars == <<pc, storm_track_df, policy_params, trigger_method, wind, pressure,
          payout_table, max_cat_achieved, locations, aggregate_limit,
          payout_profiles, ret>>

-----------------------------------------------------------------------------
\* Bounds of the model.

MaxTrackLen == 2
MaxTiers == 2
MaxCat == 3
MaxLocs == 2

-----------------------------------------------------------------------------
\* Numbers: a float is a rational n/d or NaN.

NaN == [nan |-> TRUE, n |-> 0, d |-> 1]
Num(x) == [nan |-> FALSE, n |-> x, d |-> 1]
Rat(x, y) == [nan |-> FALSE, n |-> x, d |-> y]

\* pd.notna
notna(x) == ~x.nan

\* Python's comparisons of floats: False as soon as one side is NaN.
Geq(a, b) == notna(a) /\ notna(b) /\ a.n * b.d >= b.n * a.d
Leq(a, b) == notna(a) /\ notna(b) /\ a.n * b.d <= b.n * a.d
Gt(a, b)  == notna(a) /\ notna(b) /\ a.n * b.d > b.n * a.d

\* Python's max(a, b) on two integers.
Max(a, b) == IF b > a THEN b ELSE a
Min(a, b) == IF b < a THEN b ELSE a

\* None, for a missing dictionary entry or an explicit None.
None == [none |-> TRUE]

-----------------------------------------------------------------------------
\* determine_category: the category of a (wind, pressure) reading.

RECURSIVE WindScan(_, _, _, _)
WindScan(w, table, i, cat_wind) ==
    IF i > Len(table) THEN cat_wind
    ELSE WindScan(w, table, i + 1,
                  IF Geq(w, table[i].Min_Wind)
                  THEN Max(cat_wind, table[i].Category)
                  ELSE cat_wind)

RECURSIVE PressureScan(_, _, _, _)
PressureScan(p, table, i, cat_pres) ==
    IF i > Len(table) THEN cat_pres
    ELSE PressureScan(p, table, i + 1,
                      IF notna(table[i].Max_Pressure) /\ Leq(p, table[i].Max_Pressure)
                      THEN Max(cat_pres, table[i].Category)
                      ELSE cat_pres)

\* Variant: a tier is reached only when both paths reach it.
determine_category_both(w, p, table) ==
    LET cat_wind == IF notna(w) THEN WindScan(w, table, 1, 0) ELSE 0
        cat_pres == IF notna(p) /\ Gt(p, Num(0)) THEN PressureScan(p, table, 1, 0) ELSE 0
    IN  Min(cat_wind, cat_pres)

determine_category(w, p, table) ==
    LET cat_wind == IF notna(w) THEN WindScan(w, table, 1, 0) ELSE 0
        cat_pres == IF notna(p) /\ Gt(p, Num(0)) THEN PressureScan(p, table, 1, 0) ELSE 0
    IN  Max(cat_wind, cat_pres)

-----------------------------------------------------------------------------
\* The payout resolution at the end of evaluate_payout_complex.

RECURSIVE SeqMax(_, _, _)
SeqMax(s, i, m) ==
    IF i > Len(s) THEN m ELSE SeqMax(s, i + 1, IF s[i].Payout_Pct > m THEN s[i].Payout_Pct ELSE m)

\* Variant: the simple lookup, without the "at least" fallback.
PayoutResolutionExactOnly(table, cat) ==
    LET match == SelectSeq(table, LAMBDA row : row.Category = cat)
    IN  IF match # <<>> THEN match[1].Payout_Pct ELSE 0

PayoutResolution(table, cat) ==
    LET match == SelectSeq(table, LAMBDA row : row.Category = cat)
        valid_payouts == SelectSeq(table, LAMBDA row : row.Category <= cat)
    IN  IF match # <<>> THEN match[1].Payout_Pct
        ELSE IF valid_payouts # <<>>
             THEN SeqMax(valid_payouts, 2, valid_payouts[1].Payout_Pct)
             ELSE 0

-----------------------------------------------------------------------------
\* Outcomes of a call: a returned value or a raised exception, with the local
\* variables of the function at that moment that the properties refer to.

Return(v, lcl) == [raised |-> FALSE, exc |-> "", value |-> v, locals |-> lcl]
Raise(e, lcl) == [raised |-> TRUE, exc |-> e, value |-> None, locals |-> lcl]

\* A Python dictionary is a record; dict.get(key, default):
dict_get(dict, key, default) == IF key \in DOMAIN dict THEN dict[key] ELSE default

\* pd.notna(dict.get(key))
entry_notna(dict, key) == key \in DOMAIN dict /\ notna(dict[key])

-----------------------------------------------------------------------------
\* calculate_distance_miles. geopy's geodesic is modelled on a local chart in
\* which one degree of latitude and one degree of longitude have different
\* lengths; the distance is kept squared, as the rational n/d. geodesic raises
\* ValueError for a latitude outside [-90, 90], which the code turns into inf.

MilesPerDegLat == 69
MilesPerDegLon == 63
MaxLatitude == 90

inf == [inf |-> TRUE, n |-> 0, d |-> 1]

Abs(x) == IF x < 0 THEN 0 - x ELSE x

calculate_distance_miles(lat1, lon1, lat2, lon2) ==
    LET D  == IF lat2.d = lon2.d THEN lat2.d ELSE lat2.d * lon2.d
        la == IF lat2.d = lon2.d THEN lat2.n ELSE lat2.n * lon2.d
        lo == IF lat2.d = lon2.d THEN lon2.n ELSE lon2.n * lat2.d
        a  == MilesPerDegLat * (lat1 * D - la)
        b  == MilesPerDegLon * (lon1 * D - lo)
    IN  IF Abs(lat1) > MaxLatitude \/ Abs(la) > MaxLatitude * D
        THEN inf
        ELSE [inf |-> FALSE, n |-> a * a + b * b, d |-> D * D]

\* dist < other, on two distances
DistLess(a, b) ==
    IF a.inf THEN FALSE
    ELSE IF b.inf THEN TRUE
    ELSE a.n * b.d < b.n * a.d

\* Variant: the comparison with the radius is reversed.
WithinRadiusReversed(dist, radius) ==
    ~dist.inf /\ radius >= 0 /\ dist.n >= radius * radius * dist.d

\* dist <= radius, radius in miles
WithinRadius(dist, radius) ==
    ~dist.inf /\ radius >= 0 /\ dist.n <= radius * radius * dist.d

-----------------------------------------------------------------------------
\* interpolate_segment: the clamped projection of the location on the segment
\* p1-p2, with interpolated intensity, or None.

\* w1 + t * (w2 - w1) with t = tn/den
Lerp(w1, w2, tn, den) ==
    Rat(w1.n * w2.d * den + tn * (w2.n * w1.d - w1.n * w2.d), w1.d * w2.d * den)

\* Variant: t is used as computed, without the clamp.
ClampFree(tn, den) == tn

\* t = max(0, min(1, t)), on the numerator tn of t = tn / den
Clamp(tn, den) == Max(0, Min(den, tn))

\* The closest point of the segment and its distance to the location:
\* t = tn / den, lat_c, lon_c and dist.
ClosestOnSegment(p1, p2, location) ==
    LET lat1 == p1.LAT
        lon1 == p1.LON
        lat_p == location.lat
        lon_p == location.lon
        dx == p2.LAT - lat1
        dy == p2.LON - lon1
        den == dx * dx + dy * dy
        tn == Clamp((lat_p - lat1) * dx + (lon_p - lon1) * dy, den)
    IN  [tn |-> tn, den |-> den,
         lat_c |-> Rat(lat1 * den + tn * dx, den),
         lon_c |-> Rat(lon1 * den + tn * dy, den),
         dist |-> calculate_distance_miles(lat_p, lon_p,
                      Rat(lat1 * den + tn * dx, den), Rat(lon1 * den + tn * dy, den))]

\* "Handle missings": the reading used for the interpolation
Reading(p, key, missing) ==
    IF entry_notna(p, key) THEN dict_get(p, key, Num(missing)) ELSE Num(missing)

\* "Interpolate intensity" and the returned record
Interpolated(p1, p2, c) ==
    [LAT |-> c.lat_c, LON |-> c.lon_c,
     USA_WIND |-> Lerp(Reading(p1, "USA_WIND", 0), Reading(p2, "USA_WIND", 0), c.tn, c.den),
     USA_PRES |-> Lerp(Reading(p1, "USA_PRES", 1013), Reading(p2, "USA_PRES", 1013),
                       c.tn, c.den),
     dist |-> c.dist]

\* "if dist <= location['radius_miles']: ... return {...}; return None"
InterpolatedInRadius(p1, p2, location, c) ==
    IF WithinRadius(c.dist, location.radius_miles) THEN Interpolated(p1, p2, c) ELSE None

interpolate_segment(p1, p2, location) ==
    IF p2.LAT - p1.LAT = 0 /\ p2.LON - p1.LON = 0 THEN None
    ELSE InterpolatedInRadius(p1, p2, location, ClosestOnSegment(p1, p2, location))

-----------------------------------------------------------------------------
\* evaluate_payout_complex

\* p['dist'] = d on a record of track_list
SetDist(p, d) == [dist |-> d] @@ p

\* One pass of the loop of the 'interpolated' branch, on the pair p1, p2 at
\* index i: interp is appended when it is not None, then p1 with its distance.
InterpolatedStep(st, i, p1, interp, d_p1) ==
    [track_list |-> [st.track_list EXCEPT ![i] = SetDist(p1, d_p1)],
     points_to_check |-> Append(IF interp # None
                                THEN Append(st.points_to_check, interp)
                                ELSE st.points_to_check,
                                SetDist(p1, d_p1))]

\* The 'interpolated' branch: the loop over the pairs and the last point.
\* st.track_list is the local list, st.points_to_check the candidates.
RECURSIVE InterpolatedLoop(_, _, _)
InterpolatedLoop(loc, i, st) ==
    IF i > Len(st.track_list) - 1 THEN st
    ELSE InterpolatedLoop(loc, i + 1,
             InterpolatedStep(st, i, st.track_list[i],
                 interpolate_segment(st.track_list[i], st.track_list[i + 1], loc),
                 calculate_distance_miles(loc.lat, loc.lon,
                     Num(st.track_list[i].LAT), Num(st.track_list[i].LON))))

\* "Add last point"
InterpolatedLast(st, n, d_last) ==
    [track_list |-> [st.track_list EXCEPT ![n] = SetDist(st.track_list[n], d_last)],
     points_to_check |-> Append(st.points_to_check, SetDist(st.track_list[n], d_last))]

InterpolatedBranch(track_list, loc) ==
    IF Len(track_list) > 0
    THEN InterpolatedLast(
             InterpolatedLoop(loc, 1, [track_list |-> track_list, points_to_check |-> <<>>]),
             Len(track_list),
             calculate_distance_miles(loc.lat, loc.lon,
                 Num(track_list[Len(track_list)].LAT), Num(track_list[Len(track_list)].LON)))
    ELSE [track_list |-> track_list, points_to_check |-> <<>>]

\* Variant: the last distance seen is kept, without the comparison.
ClosestLast(st, d, p) == [st EXCEPT !.min_dist = d, !.closest_point_data = p]

\* "if d < min_dist: min_dist = d; closest_point_data = p"
Closest(st, d, p) ==
    IF DistLess(d, st.min_dist)
    THEN [st EXCEPT !.min_dist = d, !.closest_point_data = p]
    ELSE st

\* "if interp: if interp['dist'] < min_dist: ..."
ClosestInterp(st, interp) ==
    IF interp # None THEN Closest(st, interp.dist, interp) ELSE st

\* Variant: the category counts wherever the point is.
AchievedAnywhere(st, inside, cat) ==
    IF cat > st.max_cat_achieved
    THEN [st EXCEPT !.max_cat_achieved = cat]
    ELSE st

\* "if cat > max_cat_achieved: max_cat_achieved = cat", when inside holds
Achieved(st, inside, cat) ==
    IF inside /\ cat > st.max_cat_achieved
    THEN [st EXCEPT !.max_cat_achieved = cat]
    ELSE st

\* Variant: an intersecting segment contributes the category of its
\* interpolated point.
MaxOutcomeStepInterpolated(st, p1, p2, interp, d1, table) ==
    Achieved(ClosestInterp(Closest(st, d1, p1), interp),
             interp # None,
             determine_category(dict_get(interp, "USA_WIND", Num(0)),
                                dict_get(interp, "USA_PRES", Num(1013)), table))

\* One pass of the loop of the 'max_outcome' branch, on the pair p1, p2.
MaxOutcomeStep(st, p1, p2, interp, d1, table) ==
    Achieved(ClosestInterp(Closest(st, d1, p1), interp),
             interp # None,
             Max(determine_category(dict_get(p1, "USA_WIND", Num(0)),
                                    dict_get(p1, "USA_PRES", Num(1013)), table),
                 determine_category(dict_get(p2, "USA_WIND", Num(0)),
                                    dict_get(p2, "USA_PRES", Num(1013)), table)))

\* The 'max_outcome' branch: st holds min_dist, max_cat_achieved and
\* closest_point_data.
RECURSIVE MaxOutcomeLoop(_, _, _, _, _)
MaxOutcomeLoop(track_list, loc, table, i, st) ==
    IF i > Len(track_list) - 1 THEN st
    ELSE MaxOutcomeLoop(track_list, loc, table, i + 1,
             MaxOutcomeStep(st, track_list[i], track_list[i + 1],
                 interpolate_segment(track_list[i], track_list[i + 1], loc),
                 calculate_distance_miles(loc.lat, loc.lon,
                     Num(track_list[i].LAT), Num(track_list[i].LON)),
                 table))

MaxOutcomeBranch(track_list, loc, table, st0) ==
    IF Len(track_list) > 0
    THEN Closest(MaxOutcomeLoop(track_list, loc, table, 1, st0),
                 calculate_distance_miles(loc.lat, loc.lon,
                     Num(track_list[Len(track_list)].LAT),
                     Num(track_list[Len(track_list)].LON)),
                 track_list[Len(track_list)])
    ELSE st0

\* "Now evaluate all candidates"
RECURSIVE CandidateLoop(_, _, _, _, _)
CandidateLoop(points_to_check, radius, table, i, st) ==
    IF i > Len(points_to_check) THEN st
    ELSE CandidateLoop(points_to_check, radius, table, i + 1,
             Achieved(Closest(st, points_to_check[i].dist, points_to_check[i]),
                      WithinRadius(points_to_check[i].dist, radius),
                      determine_category(
                          dict_get(points_to_check[i], "USA_WIND", Num(0)),
                          dict_get(points_to_check[i], "USA_PRES", Num(1013)), table)))

\* Variant: the parameters are read with policy_params[...], whose failure is
\* a KeyError.
MissingParametersKeyError(lat_p, lon_p, radius_p) ==
    IF lat_p = None \/ lon_p = None \/ radius_p = None THEN "KeyError" ELSE ""

\* "if lat_p is None or lon_p is None or radius is None: raise ValueError":
\* the exception to raise, "" for none.
MissingParameters(lat_p, lon_p, radius_p) ==
    IF lat_p = None \/ lon_p = None \/ radius_p = None THEN "ValueError" ELSE ""

\* Variant: min_dist starts at a large finite distance (9999 miles).
InitialStateFinite ==
    [min_dist |-> [inf |-> FALSE, n |-> 9999 * 9999, d |-> 1],
     max_cat_achieved |-> 0, closest_point_data |-> None]

\* min_dist, max_cat_achieved and closest_point_data before the track is read
InitialState == [min_dist |-> inf, max_cat_achieved |-> 0, closest_point_data |-> None]

\* The payout resolution and the returned dictionary. lists holds the local
\* track_list and points_to_check, st the state after the loops.
EvaluationResult(lists, st, payout_ratio) ==
    Return([triggered |-> payout_ratio > 0,
            payout_ratio |-> payout_ratio,
            max_category_inside_radius |-> st.max_cat_achieved,
            triggered_category |-> st.max_cat_achieved,
            min_distance_miles |-> st.min_dist,
            closest_point_data |-> st.closest_point_data],
           lists)

PayoutOf(lists, st, table) ==
    EvaluationResult(lists, st, PayoutResolution(table, st.max_cat_achieved))

\* The candidate loop on the lists and the state a branch leaves.
EvaluateCandidates(lists, st1, radius, table) ==
    PayoutOf(lists, CandidateLoop(lists.points_to_check, radius, table, 1, st1), table)

\* Variant: any method other than 'interpolated' is taken as 'max_outcome',
\* the default of the parameter.
EvaluateMethodDefault(track, loc, table, method) ==
    IF method = "interpolated"
    THEN EvaluateCandidates(InterpolatedBranch(track, loc), InitialState,
                            loc.radius_miles, table)
    ELSE EvaluateCandidates([track_list |-> track, points_to_check |-> <<>>],
                            MaxOutcomeBranch(track, loc, table, InitialState),
                            loc.radius_miles, table)

\* The branches on trigger_method; any other method leaves track_list unbound
\* and points_to_check empty.
EvaluateMethod(track, loc, table, method) ==
    IF method = "interpolated"
    THEN EvaluateCandidates(InterpolatedBranch(track, loc), InitialState,
                            loc.radius_miles, table)
    ELSE IF method = "max_outcome"
    THEN EvaluateCandidates([track_list |-> track, points_to_check |-> <<>>],
                            MaxOutcomeBranch(track, loc, table, InitialState),
                            loc.radius_miles, table)
    ELSE EvaluateCandidates([track_list |-> None, points_to_check |-> <<>>],
                            InitialState, loc.radius_miles, table)

evaluate_payout_complex(track, params, method) ==
    LET lat_p == dict_get(params, "lat", None)
        lon_p == dict_get(params, "lon", None)
        radius_p == dict_get(params, "radius_miles", None)
    IN  IF MissingParameters(lat_p, lon_p, radius_p) # ""
        THEN Raise(MissingParameters(lat_p, lon_p, radius_p),
                   [track_list |-> None, points_to_check |-> None])
        ELSE EvaluateMethod(track,
                 [lat |-> lat_p.n, lon |-> lon_p.n, radius_miles |-> radius_p.n],
                 params.payout_table, method)

\* Variant: the records of track_list are the rows of the frame themselves,
\* so that p['dist'] = d reaches the caller's frame.
FrameAfterShared(df, res) ==
    IF res.raised \/ res.locals.points_to_check = <<>> THEN df ELSE res.locals.track_list

\* The caller's frame after the call with outcome res:
\* storm_track_df.to_dict('records') builds new dicts, p['dist'] = d is
\* written to them and the frame keeps its rows.
FrameAfter(df, res) == df

-----------------------------------------------------------------------------
\* evaluate_portfolio_complex. payout_profiles is a Python dict, which keeps
\* its insertion order: a sequence of entries [name, table] with distinct names.

RECURSIVE ProfileIndex(_, _, _)
ProfileIndex(profiles, name, i) ==
    IF i > Len(profiles) THEN 0
    ELSE IF profiles[i].name = name THEN i
    ELSE ProfileIndex(profiles, name, i + 1)

\* Variant: the "Default" profile is not tried.
ResolveProfileNoDefault(profiles, loc) ==
    LET profile_name == dict_get(loc, "Profile_Name", "Default")
        named == ProfileIndex(profiles, profile_name, 1)
    IN  IF named # 0 THEN named
        ELSE IF Len(profiles) = 0 THEN 0
        ELSE 1

\* The table a location is evaluated with: an index into payout_profiles,
\* 0 when list(payout_profiles.values())[0] raises IndexError.
ResolveProfile(profiles, loc) ==
    LET profile_name == dict_get(loc, "Profile_Name", "Default")
        named == ProfileIndex(profiles, profile_name, 1)
        default == ProfileIndex(profiles, "Default", 1)
    IN  IF named # 0 THEN named
        ELSE IF default # 0 THEN default
        ELSE IF Len(profiles) = 0 THEN 0
        ELSE 1

\* ratio * sublimit, the ratio being a percentage
LocPayout(payout_ratio, sublimit) == (payout_ratio * sublimit) \div 100

\* Variant: the cap is forgotten.
FinalPayoutUncapped(total_payout, limit) == total_payout

\* final_payout = min(total_payout, aggregate_limit)
FinalPayout(total_payout, limit) == Min(total_payout, limit)

\* "loc_payout = 0; if res['triggered']: loc_payout = res['payout_ratio'] * sublimit"
LocationPayout(res, loc) ==
    IF res.value.triggered THEN LocPayout(res.value.payout_ratio, loc.sublimit) ELSE 0

\* The accumulation after the evaluation res of the location loc returned.
Accumulate(st, loc, policy, res, loc_payout) ==
    [exc |-> "",
     frame |-> FrameAfter(st.frame, res),
     total_payout |-> st.total_payout + loc_payout,
     triggered_any |-> st.triggered_any \/ res.value.triggered,
     policies |-> Append(st.policies, policy),
     details |-> Append(st.details,
         [Location |-> loc.Name,
          Triggered |-> res.value.triggered,
          Payout |-> loc_payout,
          Category |-> res.value.max_category_inside_radius,
          MinDist |-> res.value.min_distance_miles])]

\* The evaluation of one location with its policy: an exception of
\* evaluate_payout_complex propagates.
EvaluatedLocation(st, loc, policy, res) ==
    IF res.raised
    THEN [st EXCEPT !.exc = res.exc, !.policies = Append(st.policies, policy)]
    ELSE Accumulate(st, loc, policy, res, LocationPayout(res, loc))

\* st.frame is the caller's frame as the calls so far have left it
PolicyLocation(st, loc, method, policy) ==
    EvaluatedLocation(st, loc, policy, evaluate_payout_complex(st.frame, policy, method))

\* One pass of the loop over the locations; k is the resolved profile.
PortfolioStep(st, loc, profiles, method, k) ==
    IF k = 0 THEN [st EXCEPT !.exc = "IndexError"]
    ELSE IF ~({"lat", "lon", "radius_miles"} \subseteq DOMAIN loc)
    THEN [st EXCEPT !.exc = "KeyError"]
    ELSE PolicyLocation(st, loc, method,
             [lat |-> loc.lat, lon |-> loc.lon,
              radius_miles |-> loc.radius_miles,
              payout_table |-> profiles[k].table])

RECURSIVE PortfolioLoop(_, _, _, _, _)
PortfolioLoop(locs, profiles, method, i, st) ==
    IF i > Len(locs) \/ st.exc # "" THEN st
    ELSE PortfolioLoop(locs, profiles, method, i + 1,
             PortfolioStep(st, locs[i], profiles, method,
                           ResolveProfile(profiles, locs[i])))

\* Variant: the flag is derived from the capped payout.
PortfolioTriggeredCapped(st, limit) == FinalPayout(st.total_payout, limit) > 0

\* 'triggered': triggered_any
PortfolioTriggered(st, limit) == st.triggered_any

PortfolioResult(st, limit) ==
    IF st.exc # ""
    THEN Raise(st.exc, [policies |-> st.policies, details |-> st.details,
                        frame |-> st.frame])
    ELSE Return([triggered |-> PortfolioTriggered(st, limit),
                 total_payout |-> FinalPayout(st.total_payout, limit),
                 uncapped_payout |-> st.total_payout,
                 location_breakdown |-> st.details],
                [policies |-> st.policies, details |-> st.details,
                 frame |-> st.frame])

evaluate_portfolio_complex(track, locs, limit, profiles, method) ==
    PortfolioResult(PortfolioLoop(locs, profiles, method, 1,
                        [exc |-> "", frame |-> track,
                         total_payout |-> 0, triggered_any |-> FALSE,
                         policies |-> <<>>, details |-> <<>>]),
                    limit)

-----------------------------------------------------------------------------
\* Inputs.

SeqsUpTo(S, n) == UNION {[1..k -> S] : k \in 0..n}

Tier(c, mw, mp, pct) ==
    [Category |-> c, Min_Wind |-> mw, Max_Pressure |-> mp, Payout_Pct |-> pct]

\* The rows of the default profile of the user interface.
StdMinWind == <<64, 83, 96, 113, 137>>
StdMaxPressure == <<980, 965, 945, 920, 900>>
StdPayoutPct == <<10, 25, 50, 80, 100>>

Categories == 1..MaxCat

\* Tables for the classifier: a threshold is absent (NaN), the standard one of
\* the category, or the standard one of the mirrored category (so that the
\* thresholds need not grow with the category).
ClassifyTiers ==
    UNION {{Tier(c, mw, mp, StdPayoutPct[c]) :
                mw \in {NaN} \cup {Num(StdMinWind[k]) : k \in {c, MaxCat + 1 - c}},
                mp \in {NaN} \cup {Num(StdMaxPressure[c])}} : c \in Categories}
ClassifyTables == SeqsUpTo(ClassifyTiers, MaxTiers)
Winds == {NaN, Num(0), Num(63), Num(64), Num(100), Num(150)}
Pressures == {NaN, Num(-1), Num(0), Num(900), Num(980), Num(1013)}

\* Tables for the payout resolution: standard thresholds, any fraction.
PayoutPcts == {0, 10, 50, 100}
ResolveTiers ==
    {Tier(c, Num(StdMinWind[c]), Num(StdMaxPressure[c]), pct) :
        c \in Categories, pct \in PayoutPcts}
ResolveTables == SeqsUpTo(ResolveTiers, MaxTiers)

\* Tables for the evaluators, as the profile editor can produce them.
StdTier(c) == Tier(c, Num(StdMinWind[c]), Num(StdMaxPressure[c]), StdPayoutPct[c])
\* rows 1 and 3 of the default profile, in both storage orders
TableStd == <<StdTier(1), StdTier(3)>>
TableUnsorted == <<StdTier(3), StdTier(1)>>
\* the fraction of category 3 edited below that of category 1
TableEdited == <<StdTier(1), Tier(3, Num(StdMinWind[3]), Num(StdMaxPressure[3]), 5)>>
\* wind thresholds only, pressure thresholds left empty
TableWindOnly == <<Tier(1, Num(StdMinWind[1]), NaN, StdPayoutPct[1]),
                   Tier(3, Num(StdMinWind[3]), NaN, StdPayoutPct[3])>>
\* pressure thresholds only, wind thresholds filled with 0
TablePressureOnly == <<Tier(1, Num(0), Num(StdMaxPressure[1]), StdPayoutPct[1]),
                       Tier(3, Num(0), Num(StdMaxPressure[3]), StdPayoutPct[3])>>
\* the wind-only table of the scenario: categories 1, 3 and 5
TableScenario == <<Tier(1, Num(StdMinWind[1]), NaN, StdPayoutPct[1]),
                   Tier(3, Num(StdMinWind[3]), NaN, StdPayoutPct[3]),
                   Tier(5, Num(StdMinWind[5]), NaN, StdPayoutPct[5])>>
EvalTables ==
    {<<>>, TableStd, TableUnsorted, TableEdited, TableWindOnly, TablePressureOnly,
     TableScenario}

\* Track records. The location of the evaluations is (1, 0): of the positions
\* below, (1, 1) is 63 miles away, (0, 0) is 69 and (1, 2) is 126; the
\* segment (0,0)-(1,1) passes at less than 47 miles.
TrackPositions == {<<0, 0>>, <<1, 1>>, <<1, 2>>}
Point(pos, w, p) == [LAT |-> pos[1], LON |-> pos[2], USA_WIND |-> w, USA_PRES |-> p]
PointNoPres(pos, w) == [LAT |-> pos[1], LON |-> pos[2], USA_WIND |-> w]
Readings == {<<NaN, NaN>>, <<Num(100), NaN>>, <<NaN, Num(975)>>, <<Num(70), Num(1000)>>}
Points == {Point(pos, r[1], r[2]) : pos \in TrackPositions, r \in Readings}
\* records of a data frame without a USA_PRES column
PointsNoPres ==
    {PointNoPres(pos, w) : pos \in TrackPositions, w \in {NaN, Num(100), Num(115)}}
Tracks == SeqsUpTo(Points, MaxTrackLen) \cup SeqsUpTo(PointsNoPres, MaxTrackLen)

Radii == {50, 65, 100}
LocationCoords == <<1, 0>>
LocLat == LocationCoords[1]
LocLon == LocationCoords[2]
PolicyGeometries ==
    {[lat |-> Num(LocLat), lon |-> Num(LocLon), radius_miles |-> Num(r)] : r \in Radii}
    \cup {[lon |-> Num(LocLon), radius_miles |-> Num(50)],
          [lat |-> Num(LocLat), radius_miles |-> Num(50)],
          [lat |-> Num(LocLat), lon |-> Num(LocLon)],
          [lat |-> None, lon |-> Num(LocLon), radius_miles |-> Num(50)]}
Methods == {"interpolated", "max_outcome", "nearest"}

\* Portfolios. Money is in thousands.
PortfolioTracks ==
    {<<Point(<<1, 1>>, Num(100), NaN)>>,
     <<Point(<<0, 0>>, NaN, Num(975)), Point(<<1, 1>>, Num(100), NaN)>>}
LocationGeometries ==
    {[lat |-> Num(LocLat), lon |-> Num(LocLon), radius_miles |-> Num(100)],
     [lat |-> Num(LocLat), lon |-> Num(LocLon), radius_miles |-> Num(50)],
     [lon |-> Num(LocLon), radius_miles |-> Num(100)],
     [lat |-> Num(LocLat), lon |-> Num(LocLon), radius_miles |-> None]}
Sublimits == {500, 1000}
ProfileNames == {"Standard", "Default", "Other"}
PortfolioLocations ==
    {geo @@ [Name |-> "Miami HQ", sublimit |-> sub, Profile_Name |-> name] :
        geo \in LocationGeometries, sub \in Sublimits, name \in {"Standard", "Stale"}}
    \cup {geo @@ [Name |-> "Miami HQ", sublimit |-> sub] :
        geo \in LocationGeometries, sub \in Sublimits}
ProfileTable(name) ==
    IF name = "Standard" THEN <<Tier(1, Num(64), Num(980), 10), Tier(3, Num(96), Num(945), 60)>>
    ELSE IF name = "Default" THEN <<Tier(1, Num(64), Num(980), 100)>>
    ELSE <<Tier(1, Num(64), Num(980), 50)>>
\* dictionaries of at most two profiles, in every insertion order
PayoutProfiles ==
    {<<>>}
    \cup {<<[name |-> a, table |-> ProfileTable(a)]>> : a \in ProfileNames}
    \cup {<<[name |-> a, table |-> ProfileTable(a)], [name |-> b, table |-> ProfileTable(b)]>> :
            a \in ProfileNames, b \in ProfileNames}
AggregateLimits == {0, 1000}
PortfolioMethods == {"interpolated", "max_outcome"}

-----------------------------------------------------------------------------
\* The state machine: a caller holds the arguments of a call (pc = "call")
\* and the function runs to its outcome (pc = the name of the function); the
\* arguments stay in the state next to the outcome.

Unused == None

\* a dict has each name once
DistinctNames(profiles) ==
    \A i, j \in 1..Len(profiles) : profiles[i].name = profiles[j].name => i = j

InitDetermineCategory ==
    /\ pc = "call"
    /\ wind \in Winds
    /\ pressure \in Pressures
    /\ payout_table \in ClassifyTables
    /\ max_cat_achieved = Unused
    /\ storm_track_df = Unused
    /\ policy_params = Unused
    /\ trigger_method = "determine_category"
    /\ locations = Unused
    /\ aggregate_limit = Unused
    /\ payout_profiles = Unused
    /\ ret = None

InitPayoutResolution ==
    /\ pc = "call"
    /\ max_cat_achieved \in 0..(MaxCat + 1)
    /\ payout_table \in ResolveTables
    /\ wind = Unused
    /\ pressure = Unused
    /\ storm_track_df = Unused
    /\ policy_params = Unused
    /\ trigger_method = "payout_resolution"
    /\ locations = Unused
    /\ aggregate_limit = Unused
    /\ payout_profiles = Unused
    /\ ret = None

InitTable == InitDetermineCategory \/ InitPayoutResolution

Init ==
    /\ pc = "call"
    /\ storm_track_df \in Tracks
    /\ policy_params \in {geo @@ [payout_table |-> table] :
                             geo \in PolicyGeometries, table \in EvalTables}
    /\ trigger_method \in Methods
    /\ wind = Unused
    /\ pressure = Unused
    /\ payout_table = Unused
    /\ max_cat_achieved = Unused
    /\ locations = Unused
    /\ aggregate_limit = Unused
    /\ payout_profiles = Unused
    /\ ret = None

InitPortfolio ==
    /\ pc = "call"
    /\ storm_track_df \in PortfolioTracks
    /\ locations \in SeqsUpTo(PortfolioLocations, MaxLocs)
    /\ aggregate_limit \in AggregateLimits
    /\ payout_profiles \in {profiles \in PayoutProfiles : DistinctNames(profiles)}
    /\ trigger_method \in PortfolioMethods
    /\ policy_params = Unused
    /\ wind = Unused
    /\ pressure = Unused
    /\ payout_table = Unused
    /\ max_cat_achieved = Unused
    /\ ret = None

CallDetermineCategory ==
    /\ pc = "call"
    /\ trigger_method = "determine_category"
    /\ ret' = Return(determine_category(wind, pressure, payout_table), None)
    /\ pc' = "determine_category"
    /\ UNCHANGED <<storm_track_df, policy_params, trigger_method, wind, pressure,
                   payout_table, max_cat_achieved, locations, aggregate_limit,
                   payout_profiles>>

CallPayoutResolution ==
    /\ pc = "call"
    /\ trigger_method = "payout_resolution"
    /\ ret' = Return([payout_ratio |-> PayoutResolution(payout_table, max_cat_achieved),
                      triggered |-> PayoutResolution(payout_table, max_cat_achieved) > 0],
                     None)
    /\ pc' = "payout_resolution"
    /\ UNCHANGED <<storm_track_df, policy_params, trigger_method, wind, pressure,
                   payout_table, max_cat_achieved, locations, aggregate_limit,
                   payout_profiles>>

\* The caller's frame after the call is what the function left of it; the
\* policy dict is only read.
CallEvaluatePayout ==
    /\ pc = "call"
    /\ policy_params # Unused
    /\ ret' = evaluate_payout_complex(storm_track_df, policy_params, trigger_method)
    /\ storm_track_df' = FrameAfter(storm_track_df, ret')
    /\ pc' = "evaluate_payout_complex"
    /\ UNCHANGED <<policy_params, trigger_method, wind, pressure,
                   payout_table, max_cat_achieved, locations, aggregate_limit,
                   payout_profiles>>

\* The locations and the profile map are only read: policy is a new dict for
\* each location.
CallEvaluatePortfolio ==
    /\ pc = "call"
    /\ policy_params = Unused
    /\ trigger_method \in PortfolioMethods
    /\ ret' = evaluate_portfolio_complex(storm_track_df, locations, aggregate_limit,
                                         payout_profiles, trigger_method)
    /\ storm_track_df' = ret'.locals.frame
    /\ pc' = "evaluate_portfolio_complex"
    /\ UNCHANGED <<policy_params, trigger_method, wind, pressure,
                   payout_table, max_cat_achieved, locations, aggregate_limit,
                   payout_profiles>>

InitSegment ==
    /\ pc = "call"
    /\ storm_track_df \in [1..2 -> Points \cup PointsNoPres]
    /\ policy_params \in {[lat |-> Num(LocLat), lon |-> Num(LocLon), radius_miles |-> Num(r)] :
                             r \in Radii}
    /\ trigger_method = "interpolate_segment"
    /\ wind = Unused
    /\ pressure = Unused
    /\ payout_table = Unused
    /\ max_cat_achieved = Unused
    /\ locations = Unused
    /\ aggregate_limit = Unused
    /\ payout_profiles = Unused
    /\ ret = None

\* interpolate_segment on the pair of storm_track_df; the outcome keeps the
\* locals t, lat_c, lon_c and dist (None when the function returned before).
CallInterpolateSegment ==
    /\ pc = "call"
    /\ trigger_method = "interpolate_segment"
    /\ ret' = Return(interpolate_segment(storm_track_df[1], storm_track_df[2],
                         [lat |-> policy_params.lat.n, lon |-> policy_params.lon.n,
                          radius_miles |-> policy_params.radius_miles.n]),
                     IF storm_track_df[1].LAT = storm_track_df[2].LAT
                        /\ storm_track_df[1].LON = storm_track_df[2].LON
                     THEN None
                     ELSE ClosestOnSegment(storm_track_df[1], storm_track_df[2],
                              [lat |-> policy_params.lat.n, lon |-> policy_params.lon.n,
                               radius_miles |-> policy_params.radius_miles.n]))
    /\ pc' = "interpolate_segment"
    /\ UNCHANGED <<storm_track_df, policy_params, trigger_method, wind, pressure,
                   payout_table, max_cat_achieved, locations, aggregate_limit,
                   payout_profiles>>

\* The segment projection on its own.
NextSegment == CallInterpolateSegment
SpecSegment == InitSegment /\ [][NextSegment]_vars

\* Single-location evaluations.
Next == CallEvaluatePayout
Spec == Init /\ [][Next]_vars

\* The classifier and the payout resolution on their own.
NextTable == CallDetermineCategory \/ CallPayoutResolution
SpecTable == InitTable /\ [][NextTable]_vars

\* Portfolio evaluations.
NextPortfolio == CallEvaluatePortfolio
SpecPortfolio == InitPortfolio /\ [][NextPortfolio]_vars

\* Calls of either evaluator.
InitCalls == Init \/ InitPortfolio
NextCalls == CallEvaluatePayout \/ CallEvaluatePortfolio
SpecCalls == InitCalls /\ [][NextCalls]_vars

-----------------------------------------------------------------------------
\* Properties.

SetMax(S) == CHOOSE x \in S : \A y \in S : y <= x

RECURSIVE SumPayout(_, _)
SumPayout(details, i) ==
    IF i > Len(details) THEN 0 ELSE details[i].Payout + SumPayout(details, i + 1)

PortfolioReturned == pc = "evaluate_portfolio_complex" /\ ~ret.raised

\* C1: the total payout of a portfolio result is at most the aggregate limit
\* and is min(uncapped payout, aggregate limit); the uncapped payout is the sum
\* of the payouts of the location breakdown, each of which is the payout ratio
\* of the location's evaluation times its sublimit.
C1_PayoutCap ==
    PortfolioReturned =>
        LET v == ret.value
            n == Len(v.location_breakdown)
        IN  /\ v.total_payout <= aggregate_limit
            /\ v.total_payout = IF v.uncapped_payout <= aggregate_limit
                                THEN v.uncapped_payout ELSE aggregate_limit
            /\ v.uncapped_payout = SumPayout(v.location_breakdown, 1)
            /\ n = Len(locations)
            /\ \A i \in 1..n :
                  v.location_breakdown[i].Payout * 100 =
                      evaluate_payout_complex(storm_track_df, ret.locals.policies[i],
                          trigger_method).value.payout_ratio * locations[i].sublimit

\* Two locations paying 600 each under a limit of 1000: total 1000, uncapped 1200.
C1_Witness ==
    /\ PortfolioReturned
    /\ aggregate_limit = 1000
    /\ Len(ret.value.location_breakdown) = 2
    /\ \A i \in 1..2 : ret.value.location_breakdown[i].Payout = 600
    /\ ret.value.total_payout = 1000
    /\ ret.value.uncapped_payout = 1200

\* C2: the payout ratio is the fraction of a tier of the achieved category C
\* when the table has one; else the largest fraction among the tiers of
\* category <= C; else 0; and triggered holds exactly when the ratio is > 0.
C2_PayoutResolution ==
    pc = "payout_resolution" =>
        LET C == max_cat_achieved
            rows == 1..Len(payout_table)
            exact == {i \in rows : payout_table[i].Category = C}
            below == {i \in rows : payout_table[i].Category <= C}
            ratio == ret.value.payout_ratio
        IN  /\ exact # {} => \E i \in exact : ratio = payout_table[i].Payout_Pct
            /\ exact = {} /\ below # {} =>
                  ratio = SetMax({payout_table[i].Payout_Pct : i \in below})
            /\ below = {} => ratio = 0
            /\ ret.value.triggered <=> ratio > 0

\* A table with categories 1 and 3 only and C = 2 pays the fraction of category 1.
C2_Witness ==
    /\ pc = "payout_resolution"
    /\ max_cat_achieved = 2
    /\ Len(payout_table) = 2
    /\ payout_table[1].Category = 3
    /\ payout_table[2].Category = 1
    /\ payout_table[1].Payout_Pct = 100
    /\ payout_table[2].Payout_Pct = 10
    /\ ret.value.payout_ratio = 10
    /\ ret.value.triggered

\* C5: determine_category returns max(W, P): W the highest category of a tier
\* with a minimum-wind threshold <= wind (0 when the wind is absent), P the
\* highest category of a tier with a maximum-pressure threshold >= pressure
\* (0 when the pressure is absent or <= 0); and it does not raise.
C5_WindPath ==
    IF wind.nan THEN 0
    ELSE SetMax({0} \cup
            {payout_table[i].Category : i \in
                {j \in 1..Len(payout_table) :
                    /\ ~payout_table[j].Min_Wind.nan
                    /\ payout_table[j].Min_Wind.n * wind.d <= wind.n * payout_table[j].Min_Wind.d}})

C5_PressurePath ==
    IF pressure.nan \/ pressure.n <= 0 THEN 0
    ELSE SetMax({0} \cup
            {payout_table[i].Category : i \in
                {j \in 1..Len(payout_table) :
                    /\ ~payout_table[j].Max_Pressure.nan
                    /\ payout_table[j].Max_Pressure.n * pressure.d
                           >= pressure.n * payout_table[j].Max_Pressure.d}})

C5_MaxOfPaths ==
    pc = "determine_category" =>
        /\ ~ret.raised
        /\ ret.value = IF C5_WindPath >= C5_PressurePath THEN C5_WindPath ELSE C5_PressurePath

\* A reading that meets the category-3 tier on the pressure path alone.
C5_Witness ==
    /\ pc = "determine_category"
    /\ wind = Num(0)
    /\ pressure = Num(900)
    /\ payout_table = <<Tier(3, Num(StdMinWind[3]), Num(StdMaxPressure[3]), StdPayoutPct[3])>>
    /\ C5_WindPath = 0
    /\ ret.value = 3

-----------------------------------------------------------------------------
\* Properties of the single-location evaluator.

EvalCalled == pc = "evaluate_payout_complex"
EvalReturned == EvalCalled /\ ~ret.raised
GeometryKeys == {"lat", "lon", "radius_miles"}
GeometryMissing(dict) == \E k \in GeometryKeys : k \notin DOMAIN dict \/ dict[k] = None

\* the distance of raw point i of the track to the location, and its category
RawDist(i) ==
    calculate_distance_miles(policy_params.lat.n, policy_params.lon.n,
        Num(storm_track_df[i].LAT), Num(storm_track_df[i].LON))
RawInRadius(i) ==
    ~RawDist(i).inf /\ RawDist(i).n <=
        policy_params.radius_miles.n * policy_params.radius_miles.n * RawDist(i).d
RawCategory(i) ==
    determine_category(dict_get(storm_track_df[i], "USA_WIND", Num(0)),
                       dict_get(storm_track_df[i], "USA_PRES", Num(1013)),
                       policy_params.payout_table)

\* C3: under max_outcome the achieved category is at least the classifier
\* result of every raw track point that lies within the radius.
C3_RawPointsContribute ==
    EvalReturned /\ trigger_method = "max_outcome" =>
        \A i \in 1..Len(storm_track_df) :
            RawInRadius(i) => ret.value.max_category_inside_radius >= RawCategory(i)

\* the result of the same evaluation with another radius
WithRadius(r) ==
    evaluate_payout_complex(storm_track_df,
        [policy_params EXCEPT !.radius_miles = Num(r)], trigger_method).value

NonDecreasingTable(table) ==
    \A i, j \in 1..Len(table) :
        table[i].Category < table[j].Category => table[i].Payout_Pct <= table[j].Payout_Pct

\* C4 as stated: a larger radius decreases neither the achieved category nor
\* the payout ratio, for any payout table.
C4_MonotoneAnyTable ==
    EvalReturned =>
        \A r2 \in Radii :
            r2 >= policy_params.radius_miles.n =>
                /\ WithRadius(r2).max_category_inside_radius
                       >= ret.value.max_category_inside_radius
                /\ WithRadius(r2).payout_ratio >= ret.value.payout_ratio

\* C4 amended: a larger radius never decreases the achieved category; it never
\* decreases the payout ratio when the payout fractions of the table are
\* non-decreasing in the category.
C4_MonotoneInRadius ==
    EvalReturned =>
        \A r2 \in Radii :
            r2 >= policy_params.radius_miles.n =>
                /\ WithRadius(r2).max_category_inside_radius
                       >= ret.value.max_category_inside_radius
                /\ NonDecreasingTable(policy_params.payout_table) =>
                       WithRadius(r2).payout_ratio >= ret.value.payout_ratio

\* Nothing at 50 miles, category 3 and half the sublimit at 100 miles.
C4_Witness ==
    /\ EvalReturned
    /\ policy_params.radius_miles = Num(50)
    /\ policy_params.payout_table = TableStd
    /\ NonDecreasingTable(TableStd)
    /\ ret.value.max_category_inside_radius = 0
    /\ WithRadius(100).max_category_inside_radius = 3
    /\ WithRadius(100).payout_ratio = 50

LacksReadings(p) == ~entry_notna(p, "USA_WIND") /\ ~entry_notna(p, "USA_PRES")

\* C6: a track whose points all lack both wind and pressure yields achieved
\* category 0 and no trigger, under either method and for any payout table.
C6_MissingReadingsCategoryZero ==
    /\ EvalReturned
    /\ trigger_method \in {"interpolated", "max_outcome"}
    /\ \A i \in 1..Len(storm_track_df) : LacksReadings(storm_track_df[i])
    => /\ ret.value.max_category_inside_radius = 0
       /\ ~ret.value.triggered

\* C7: for an empty track and a complete location, under either method and
\* any payout table, the evaluator returns triggered = false, category 0 and
\* minimum distance +infinity, and raises nothing.
C7_EmptyTrack ==
    /\ EvalCalled
    /\ storm_track_df = <<>>
    /\ trigger_method \in {"interpolated", "max_outcome"}
    /\ ~GeometryMissing(policy_params)
    => /\ ~ret.raised
       /\ ~ret.value.triggered
       /\ ret.value.max_category_inside_radius = 0
       /\ ret.value.min_distance_miles.inf

C7_Witness ==
    /\ EvalReturned
    /\ storm_track_df = <<>>
    /\ trigger_method = "max_outcome"
    /\ policy_params.payout_table = TableStd
    /\ ret.value.min_distance_miles.inf
    /\ ~ret.value.triggered

\* C9: when the latitude, the longitude or the radius of the location is
\* absent, the evaluator raises ValueError and returns nothing, for every
\* track and method, and its list of track records was never built.
C9_MissingGeometryRaises ==
    EvalCalled /\ GeometryMissing(policy_params) =>
        /\ ret.raised
        /\ ret.exc = "ValueError"
        /\ ret.value = None
        /\ ret.locals.track_list = None

C9_Witness ==
    /\ EvalCalled
    /\ "radius_miles" \notin DOMAIN policy_params
    /\ Len(storm_track_df) = 2
    /\ trigger_method = "interpolated"
    /\ ret.raised
    /\ ret.exc = "ValueError"

-----------------------------------------------------------------------------
\* Properties of the portfolio evaluator.

PortfolioCalled == pc = "evaluate_portfolio_complex"

\* C8: a location without latitude, longitude or radius aborts only its own
\* evaluation: the run returns a result that includes every other location.
C8_AbortsOnlyThatLocation ==
    /\ PortfolioCalled
    /\ payout_profiles # <<>>
    /\ \E i \in 1..Len(locations) : GeometryMissing(locations[i])
    /\ \E i \in 1..Len(locations) : ~GeometryMissing(locations[i])
    => /\ ~ret.raised
       /\ Len(ret.value.location_breakdown) >=
              Cardinality({i \in 1..Len(locations) : ~GeometryMissing(locations[i])})

\* the table the claim gives a location
ExpectedTable(loc) ==
    LET named == {k \in 1..Len(payout_profiles) :
                      /\ "Profile_Name" \in DOMAIN loc
                      /\ payout_profiles[k].name = loc.Profile_Name}
        defaults == {k \in 1..Len(payout_profiles) : payout_profiles[k].name = "Default"}
    IN  IF named # {} THEN payout_profiles[CHOOSE k \in named : TRUE].table
        ELSE IF defaults # {} THEN payout_profiles[CHOOSE k \in defaults : TRUE].table
        ELSE payout_profiles[1].table

\* C10: each location is evaluated with the table registered under its profile
\* name when the map has that name, else with the table named "Default" when
\* the map has one, else with the first table of the map.
C10_ProfileResolution ==
    PortfolioCalled =>
        /\ \A i \in 1..Len(ret.locals.policies) :
              ret.locals.policies[i].payout_table = ExpectedTable(locations[i])
        /\ ~ret.raised => Len(ret.locals.policies) = Len(locations)

\* A stale profile name and no "Default": the first table of the map is used.
C10_Witness ==
    /\ PortfolioReturned
    /\ Len(locations) = 2
    /\ "Profile_Name" \in DOMAIN locations[2]
    /\ locations[2].Profile_Name = "Stale"
    /\ Len(payout_profiles) = 2
    /\ payout_profiles[1].name = "Other"
    /\ payout_profiles[2].name = "Standard"
    /\ ret.locals.policies[2].payout_table = ProfileTable("Other")

\* C11 as stated: a portfolio whose locations all have their geometry is
\* evaluated to a result, whatever the profile map holds (the named profile or
\* not, "Default" or not, nothing at all).
C11_NeverFailsOnProfile ==
    /\ PortfolioCalled
    /\ \A i \in 1..Len(locations) : ~GeometryMissing(locations[i])
    => ~ret.raised

\* C12: the triggered flag of a portfolio result holds exactly when a location
\* of the breakdown is triggered, each location's flag being that of its own
\* evaluation, whatever the aggregate limit (0 included).
C12_TriggeredAny ==
    PortfolioReturned =>
        /\ ret.value.triggered <=>
              \E i \in 1..Len(ret.value.location_breakdown) :
                  ret.value.location_breakdown[i].Triggered
        /\ \A i \in 1..Len(ret.value.location_breakdown) :
              ret.value.location_breakdown[i].Triggered =
                  evaluate_payout_complex(storm_track_df, ret.locals.policies[i],
                      trigger_method).value.triggered

\* A limit of 0 caps the total to 0 while one of two locations is triggered.
C12_Witness ==
    /\ PortfolioReturned
    /\ aggregate_limit = 0
    /\ Len(ret.value.location_breakdown) = 2
    /\ ret.value.location_breakdown[1].Triggered
    /\ ~ret.value.location_breakdown[2].Triggered
    /\ ret.value.uncapped_payout > 0
    /\ ret.value.total_payout = 0
    /\ ret.value.triggered

-----------------------------------------------------------------------------
\* Properties of the segment projection.

SegmentCalled == pc = "interpolate_segment"
SegP1 == storm_track_df[1]
SegP2 == storm_track_df[2]
Coincident == SegP1.LAT = SegP2.LAT /\ SegP1.LON = SegP2.LON

\* the numerator and the denominator of the unclamped t
UnclampedT ==
    (policy_params.lat.n - SegP1.LAT) * (SegP2.LAT - SegP1.LAT)
        + (policy_params.lon.n - SegP1.LON) * (SegP2.LON - SegP1.LON)
SegmentLen2 ==
    (SegP2.LAT - SegP1.LAT) * (SegP2.LAT - SegP1.LAT)
        + (SegP2.LON - SegP1.LON) * (SegP2.LON - SegP1.LON)

\* equality of a rational and an integer, of two rationals, of two distances
RatIs(x, k) == ~x.nan /\ x.n = k * x.d
RatEq(x, y) == x.nan = y.nan /\ (~x.nan => x.n * y.d = y.n * x.d)
DistEq(a, b) == a.inf = b.inf /\ (~a.inf => a.n * b.d = b.n * a.d)

\* (lat, lon), two rationals, is a point of the segment SegP1-SegP2
OnSegment(lat, lon) ==
    /\ ~lat.nan /\ ~lon.nan
    /\ (lat.n - SegP1.LAT * lat.d) * (SegP2.LON - SegP1.LON) * lon.d
           = (lon.n - SegP1.LON * lon.d) * (SegP2.LAT - SegP1.LAT) * lat.d
    /\ Min(SegP1.LAT, SegP2.LAT) * lat.d <= lat.n
    /\ lat.n <= Max(SegP1.LAT, SegP2.LAT) * lat.d
    /\ Min(SegP1.LON, SegP2.LON) * lon.d <= lon.n
    /\ lon.n <= Max(SegP1.LON, SegP2.LON) * lon.d

\* the point tested is the raw point p, and what is returned is decided by
\* the distance of p and has the coordinates of p
CoincidesWith(p) ==
    /\ RatIs(ret.locals.lat_c, p.LAT)
    /\ RatIs(ret.locals.lon_c, p.LON)
    /\ DistEq(ret.locals.dist,
              calculate_distance_miles(policy_params.lat.n, policy_params.lon.n,
                                       Num(p.LAT), Num(p.LON)))
    /\ ret.value # None =>
          /\ RatIs(ret.value.LAT, p.LAT)
          /\ RatIs(ret.value.LON, p.LON)

\* the readings of the returned record are those of p as they stand in p
ReadingsOf(p) ==
    ret.value # None =>
        /\ "USA_WIND" \in DOMAIN p /\ RatEq(ret.value.USA_WIND, p.USA_WIND)
        /\ "USA_PRES" \in DOMAIN p /\ RatEq(ret.value.USA_PRES, p.USA_PRES)

\* the readings of the returned record are those of p, a missing wind
\* counting as 0 and a missing pressure as 1013
SubstitutedReadingsOf(p) ==
    ret.value # None =>
        /\ RatEq(ret.value.USA_WIND,
                 IF entry_notna(p, "USA_WIND") THEN p.USA_WIND ELSE Num(0))
        /\ RatEq(ret.value.USA_PRES,
                 IF entry_notna(p, "USA_PRES") THEN p.USA_PRES ELSE Num(1013))

\* the point tested lies on the segment, what is returned is that point, and
\* it is returned exactly when it is within the radius
TestedPointOnSegment ==
    /\ OnSegment(ret.locals.lat_c, ret.locals.lon_c)
    /\ ret.value # None <=>
          /\ ~ret.locals.dist.inf
          /\ ret.locals.dist.n <= policy_params.radius_miles.n
                 * policy_params.radius_miles.n * ret.locals.dist.d
    /\ ret.value # None =>
          /\ RatEq(ret.value.LAT, ret.locals.lat_c)
          /\ RatEq(ret.value.LON, ret.locals.lon_c)
          /\ DistEq(ret.value.dist, ret.locals.dist)

\* C13 as stated: for non-coincident p1, p2 the point tested and returned
\* lies on the segment; it is p1 with p1's wind and pressure when t < 0 and
\* p2 with p2's wind and pressure when t > 1.
C13_ClampedToEndpoint ==
    SegmentCalled /\ ~Coincident =>
        /\ TestedPointOnSegment
        /\ UnclampedT < 0 => CoincidesWith(SegP1) /\ ReadingsOf(SegP1)
        /\ UnclampedT > SegmentLen2 => CoincidesWith(SegP2) /\ ReadingsOf(SegP2)

\* C13 amended: the same, the wind and the pressure being those of the
\* endpoint after the substitution of 0 for a missing wind and of 1013 for a
\* missing pressure.
C13_ClampedToEndpointSubstituted ==
    SegmentCalled /\ ~Coincident =>
        /\ TestedPointOnSegment
        /\ UnclampedT < 0 => CoincidesWith(SegP1) /\ SubstitutedReadingsOf(SegP1)
        /\ UnclampedT > SegmentLen2 => CoincidesWith(SegP2) /\ SubstitutedReadingsOf(SegP2)

\* The segment (1,2)-(1,1) seen from (1,0): t = 2, so the point is p2, which
\* is within 65 miles and is returned with the wind of p2.
C13_Witness ==
    /\ SegmentCalled
    /\ SegP1.LAT = 1 /\ SegP1.LON = 2
    /\ SegP2.LAT = 1 /\ SegP2.LON = 1
    /\ UnclampedT > SegmentLen2
    /\ policy_params.radius_miles = Num(65)
    /\ entry_notna(SegP1, "USA_WIND") /\ SegP1.USA_WIND = Num(70)
    /\ entry_notna(SegP2, "USA_WIND") /\ SegP2.USA_WIND = Num(100)
    /\ ret.value # None
    /\ RatIs(ret.value.USA_WIND, 100)
    /\ RatIs(ret.value.LON, 1)

-----------------------------------------------------------------------------
\* Properties of the two methods.

TwoMethods == {"interpolated", "max_outcome"}

\* the interpolated point of the pair (i, i + 1) of the track, None when the
\* pair is coincident or its closest point is outside the radius
SegmentPoint(i) ==
    interpolate_segment(storm_track_df[i], storm_track_df[i + 1],
        [lat |-> policy_params.lat.n, lon |-> policy_params.lon.n,
         radius_miles |-> policy_params.radius_miles.n])
InRadiusSegments == {i \in 1..(Len(storm_track_df) - 1) : SegmentPoint(i) # None}

\* the distances of all raw points and of all in-radius interpolated points
AllDistances ==
    {RawDist(i) : i \in 1..Len(storm_track_df)}
        \cup {SegmentPoint(i).dist : i \in InRadiusSegments}

\* m is the minimum of the distances of S, +infinity for none
IsMinimum(m, S) ==
    /\ S = {} => m.inf
    /\ \A d \in S : ~DistLess(d, m)
    /\ S # {} => \E d \in S : DistEq(d, m)

\* the result of the same evaluation under another method
WithMethod(method) == evaluate_payout_complex(storm_track_df, policy_params, method).value

\* C14: under both methods the reported minimum distance is the minimum of
\* the distances of all raw points and all in-radius interpolated points, and
\* the two methods report the same minimum distance.
C14_MinimumDistance ==
    EvalReturned /\ trigger_method \in TwoMethods =>
        /\ IsMinimum(ret.value.min_distance_miles, AllDistances)
        /\ \A method \in TwoMethods :
              DistEq(WithMethod(method).min_distance_miles, ret.value.min_distance_miles)

\* The segment (0,0)-(1,1) without readings passes within 50 miles of the
\* location, closer than both raw points: the interpolated point gives the
\* minimum distance and no category.
C14_Witness ==
    /\ EvalReturned
    /\ trigger_method = "max_outcome"
    /\ Len(storm_track_df) = 2
    /\ LacksReadings(storm_track_df[1]) /\ LacksReadings(storm_track_df[2])
    /\ policy_params.payout_table = TableStd
    /\ policy_params.radius_miles = Num(50)
    /\ InRadiusSegments = {1}
    /\ \A i \in 1..2 : ~RawInRadius(i)
    /\ DistEq(ret.value.min_distance_miles, SegmentPoint(1).dist)
    /\ ret.value.max_category_inside_radius = 0

-----------------------------------------------------------------------------
\* Properties of the storage order of a table.

Permuted(table, f) == [i \in 1..Len(table) |-> table[f[i]]]

\* C15 as stated: storing the tiers of the table in another order changes
\* neither the classifier result nor the payout ratio resolved for a category.
C15_OrderIndependent ==
    /\ pc = "determine_category" =>
          \A f \in Permutations(1..Len(payout_table)) :
              determine_category(wind, pressure, Permuted(payout_table, f)) = ret.value
    /\ pc = "payout_resolution" =>
          \A f \in Permutations(1..Len(payout_table)) :
              PayoutResolution(Permuted(payout_table, f), max_cat_achieved)
                  = ret.value.payout_ratio

\* the category a pair of raw points gives its segment under max_outcome
PairCategory(i) == Max(RawCategory(i), RawCategory(i + 1))

\* C16: under max_outcome every pair whose clamped projection is within the
\* radius contributes the larger classifier result of its two raw endpoints,
\* and the achieved category is the largest of these contributions (0 for
\* none), not a classifier result of an interpolated point.
C16_SegmentMaxOfEndpoints ==
    EvalReturned /\ trigger_method = "max_outcome" =>
        /\ \A i \in InRadiusSegments :
              ret.value.max_category_inside_radius >= PairCategory(i)
        /\ ret.value.max_category_inside_radius =
              SetMax({0} \cup {PairCategory(i) : i \in InRadiusSegments})

\* The scenario on the model's chart: two records with winds 100 and 115 and
\* no pressure column, whose segment is clamped to its second point, within
\* the radius; the wind-only table 1/3/5 gives category 3 and half the sublimit.
C16_Witness ==
    /\ EvalReturned
    /\ trigger_method = "max_outcome"
    /\ storm_track_df = <<PointNoPres(<<1, 2>>, Num(100)), PointNoPres(<<1, 1>>, Num(115))>>
    /\ policy_params.radius_miles = Num(65)
    /\ policy_params.payout_table = TableScenario
    /\ InRadiusSegments = {1}
    /\ RatIs(SegmentPoint(1).LON, 1)
    /\ ret.value.triggered
    /\ ret.value.max_category_inside_radius = 3
    /\ ret.value.payout_ratio = 50

\* the classifier result of the interpolated point of the pair (i, i + 1)
InterpolatedCategory(i) ==
    determine_category(SegmentPoint(i).USA_WIND, SegmentPoint(i).USA_PRES,
                       policy_params.payout_table)

\* C17: under interpolated the achieved category is the largest classifier
\* result over the in-radius interpolated points and the in-radius raw points
\* of the track, first to last, and 0 when there is none.
C17_InterpolatedCategory ==
    EvalReturned /\ trigger_method = "interpolated" =>
        ret.value.max_category_inside_radius =
            SetMax({0}
                \cup {InterpolatedCategory(i) : i \in InRadiusSegments}
                \cup {RawCategory(i) : i \in {j \in 1..Len(storm_track_df) : RawInRadius(j)}})

\* Two records with wind 100, both more than 50 miles away, whose segment
\* passes within 50 miles: the interpolated point alone gives category 3.
C17_Witness ==
    /\ EvalReturned
    /\ trigger_method = "interpolated"
    /\ Len(storm_track_df) = 2
    /\ policy_params.radius_miles = Num(50)
    /\ policy_params.payout_table = TableStd
    /\ \A i \in 1..2 : ~RawInRadius(i) /\ RawCategory(i) = 3
    /\ InRadiusSegments = {1}
    /\ InterpolatedCategory(1) = 3
    /\ ret.value.max_category_inside_radius = 3

-----------------------------------------------------------------------------
\* Properties of the inputs across a call.

\* the evaluation of the inputs as they are after the call
EvaluatedAgain ==
    IF pc' = "evaluate_payout_complex"
    THEN evaluate_payout_complex(storm_track_df', policy_params', trigger_method')
    ELSE evaluate_portfolio_complex(storm_track_df', locations', aggregate_limit',
                                    payout_profiles', trigger_method')

C19_MaxOutcomeConservative ==
    EvalReturned /\ trigger_method = "max_outcome" =>
        /\ ret.value.max_category_inside_radius
               >= WithMethod("interpolated").max_category_inside_radius
        /\ WithMethod("interpolated").triggered => ret.value.triggered

\* C20: with a method that is neither 'interpolated' nor 'max_outcome' and a
\* complete location, the evaluator reads no track record and returns, without
\* raising, triggered = false, category 0 and minimum distance +infinity.
C20_UnknownMethod ==
    /\ EvalCalled
    /\ trigger_method \notin TwoMethods
    /\ ~GeometryMissing(policy_params)
    => /\ ~ret.raised
       /\ ret.locals.track_list = None
       /\ ret.locals.points_to_check = <<>>
       /\ ~ret.value.triggered
       /\ ret.value.payout_ratio = 0
       /\ ret.value.max_category_inside_radius = 0
       /\ ret.value.min_distance_miles.inf
       /\ ret.value.closest_point_data = None

\* A track that triggers the location under both methods and not under 'nearest'.
C20_Witness ==
    /\ EvalReturned
    /\ trigger_method = "nearest"
    /\ Len(storm_track_df) = 2
    /\ \E i \in 1..2 : RawInRadius(i)
    /\ \A method \in TwoMethods : WithMethod(method).triggered
    /\ ~ret.value.triggered
    /\ ret.value.min_distance_miles.inf

====
